---- MODULE Spec2Model ----
(***************************************************************************)
(* Ingestion orchestrator of backend/routers/document.py (upload_pdf,      *)
(* url_to_pdf, create_pdf_document_without_vectorization) together with    *)
(* the vector store gateway of backend/utils/qdrant_client.py.             *)
(*                                                                         *)
(* A request handler is cut into steps at its I/O boundaries (blob write,  *)
(* database commit, gateway calls, blob removal).  Every such I/O call may *)
(* succeed or raise; the outcome is an input of the step.  `documents` is  *)
(* the committed content of the documents table, `req.db_document` is the  *)
(* session's in-memory object, which only reaches the table by a commit.   *)
(* The handlers contain no await between their first write and their end,  *)
(* so one request is in flight at a time.                                  *)
(***************************************************************************)
EXTENDS Integers, FiniteSets, Sequences, TLC

\* number of requests issued in one behaviour
MaxCalls == 2
\* largest number of chunks the splitter yields for one document
MaxChunks == 2
\* url_to_pdf: len(extracted_text) > 100
MIN_TEXT_LEN == 100
\* lengths of the text the extractor hands back
TextLens == {0, 40, 100, 101}
\* largest limit of a search request
MaxLimit == 2
\* number of requests each worker process initialises the gateway for
MaxRounds == 2
\* largest number of points the collection holds in a hybrid search
MaxCandidates == 2
\* self.proximity_distance
PROXIMITY_DISTANCE == 50
\* semantic_limit = max(limit * 4, 20)
OVERFETCH_FACTOR == 4
\* the weights of a candidate that holds every query word, in tenths
FULL_MATCH_SEMANTIC == 6
FULL_MATCH_KEYWORD == 4
MIN_SEMANTIC_LIMIT == 20

VARIABLES
    documents,        \* committed rows of table "documents": id -> row
    document_chunks,  \* committed rows of table "document_chunks"
    blobs,            \* files present in UPLOAD_DIR
    points,           \* points of the Qdrant collection
    collections,      \* TRUE when the server has the collection
    qdrant_client,    \* the process-wide QdrantVectorClient instance
    req,              \* the request in flight / the last finished request
    calls,            \* number of requests started
    workers,          \* worker processes running the initialisation
    hs                \* one run of the hybrid search engine

vars == <<documents, document_chunks, blobs, points, collections,
          qdrant_client, req, calls, workers, hs>>

----------------------------------------------------------------------------
\* messages of the handlers
InitFailed      == "Failed to initialize Qdrant"
NoTextInPdf     == "No text could be extracted from the PDF"
ExtractorError  == "PDF extraction error"
SplitterError   == "Text splitter error"
InsertFailed    == "Failed to insert documents into Qdrant"
NoSubstantial   == "No substantial text content could be extracted from the webpage"
FallbackReason  == "Content extraction succeeded but vectorization failed"

NoDocument == [id |-> 0, vectorization_status |-> "", vectorization_error |-> "",
               chunks_count |-> 0]

\* variant: the record is created already completed
Document_completed(file_path) ==
    [file_path |-> file_path, vectorization_status |-> "completed",
     vectorization_error |-> "", chunks_count |-> 0]

\* Document(..., vectorization_status="pending"): chunks_count defaults to 0,
\* vectorization_error to NULL
Document(file_path) ==
    [file_path |-> file_path, vectorization_status |-> "pending",
     vectorization_error |-> "", chunks_count |-> 0]

\* Document(..., vectorization_status="failed", vectorization_error=error_reason,
\* chunks_count=0)
FailedDocument(file_path, error_reason) ==
    [file_path |-> file_path, vectorization_status |-> "failed",
     vectorization_error |-> error_reason, chunks_count |-> 0]

Max(S) == CHOOSE x \in S : \A y \in S : y <= x

\* id of the next inserted row: INTEGER PRIMARY KEY of SQLite is max(rowid)+1
NextId(docs) == IF DOMAIN docs = {} THEN 1 ELSE Max(DOMAIN docs) + 1

\* db.add(db_document); db.commit()
InsertRow(docs, row) == docs @@ (NextId(docs) :> row)

\* variant: the rollback forgets to delete the record
DeleteRow_kept(docs, id) == docs

\* db.delete(db_document); db.commit()
DeleteRow(docs, id) == [i \in DOMAIN docs \ {id} |-> docs[i]]

\* cascade="all, delete-orphan" of Document.chunks
CascadeChunks(chunks, id) == {c \in chunks : c.document_id # id}

\* db.commit() of the modified in-memory db_document
UpdateRow(docs, d) ==
    [docs EXCEPT ![d.id] = [@ EXCEPT !.vectorization_status = d.vectorization_status,
                                     !.vectorization_error = d.vectorization_error,
                                     !.chunks_count = d.chunks_count]]

\* variant: the status is set but chunks_count is not
MarkCompleted_nocount(d, n) == [d EXCEPT !.vectorization_status = "completed"]

\* db_document.vectorization_status = "completed"; chunks_count = len(chunks)
MarkCompleted(d, n) ==
    [d EXCEPT !.vectorization_status = "completed", !.chunks_count = n]

\* db_document.vectorization_status = "failed"; vectorization_error = str(e)
MarkFailed(d, msg) ==
    [d EXCEPT !.vectorization_status = "failed", !.vectorization_error = msg]

\* variant: any non-empty text counts as substantial
Substantial_nonempty(success, len) == success /\ len > 0

\* if extracted_text and len(extracted_text) > 100; extracted_text is ""
\* when the extractor reported success = False
Substantial(success, len) == success /\ len > MIN_TEXT_LEN

----------------------------------------------------------------------------
\* QdrantVectorClient: TRUE stands for a set attribute, FALSE for None

\* variant: a failed connect drops the client it had
connect_reset(q, ok) == [q EXCEPT !.client = ok]

\* self.client is assigned only when QdrantClient(...) returned
connect(q, ok) == IF ok THEN [q EXCEPT !.client = TRUE] ELSE q

\* collection_name is assigned before the server is asked
initialize_collection(q) == [q EXCEPT !.collection_name = TRUE]

load_embedding_model(q, ok) == IF ok THEN [q EXCEPT !.embedding_model = TRUE] ELSE q

\* one call of a gateway method and whether it returned a success
Call(name, ok) == [name |-> name, ok |-> ok]

\* variant: the return values of the three steps are not tested
initialize_qdrant_unchecked(q, exists, cOk, kOk, mOk) ==
    LET q1 == connect(q, cOk)
        q2 == initialize_collection(q1)
        q3 == load_embedding_model(q2, mOk)
    IN  [ok |-> cOk /\ kOk /\ mOk, q |-> q3, exists |-> exists \/ kOk,
         log |-> <<Call("connect", cOk), Call("initialize_collection", kOk),
                   Call("load_embedding_model", mOk)>>]

\* connect, initialize_collection, load_embedding_model, each only after the
\* earlier ones returned True.  cOk, kOk, mOk: the three calls do not raise.
\* The log lists the gateway methods called and what each returned.
initialize_qdrant(q, exists, cOk, kOk, mOk) ==
    IF ~cOk THEN [ok |-> FALSE, q |-> connect(q, FALSE), exists |-> exists,
                  log |-> <<Call("connect", FALSE)>>]
    ELSE LET q1 == connect(q, TRUE)
             q2 == initialize_collection(q1)
         IN  IF ~kOk THEN [ok |-> FALSE, q |-> q2, exists |-> exists,
                           log |-> <<Call("connect", TRUE),
                                     Call("initialize_collection", FALSE)>>]
             ELSE [ok |-> mOk, q |-> load_embedding_model(q2, mOk), exists |-> TRUE,
                   log |-> <<Call("connect", TRUE),
                             Call("initialize_collection", TRUE),
                             Call("load_embedding_model", mOk)>>]

\* variant: the ordinals are counted from 1
Batch_onebased(doc_id, n) ==
    [i \in 1..n |-> [document_id |-> doc_id, chunk_index |-> i]]

\* documents_for_qdrant of the handlers: one entry per chunk, chunk_index = i
Batch(doc_id, n) == [i \in 1..n |-> [document_id |-> doc_id, chunk_index |-> i - 1]]

\* variant: the point ids are the positions in the batch, not fresh uuids
PointsOf_positional(batch, uid) ==
    {[id |-> <<0, i>>, document_id |-> batch[i].document_id,
      chunk_index |-> batch[i].chunk_index] : i \in DOMAIN batch}

\* the points built from a batch; uid stands for the uuid4 of each point
PointsOf(batch, uid) ==
    {[id |-> <<uid, i>>, document_id |-> batch[i].document_id,
      chunk_index |-> batch[i].chunk_index] : i \in DOMAIN batch}

\* variant: every point is upserted as soon as it is encoded, so a failing
\* encode leaves the points before it in the collection
insert_documents_partial(q, pts, batch, uid, eOk, uOk) ==
    IF ~q.client \/ ~q.embedding_model THEN [ok |-> FALSE, points |-> pts]
    ELSE IF ~eOk
    THEN [ok |-> FALSE,
          points |-> pts \cup {p \in PointsOf(batch, uid) : p.chunk_index = 0}]
    ELSE IF ~uOk \/ ~q.collection_name THEN [ok |-> FALSE, points |-> pts]
    ELSE [ok |-> TRUE, points |-> pts \cup PointsOf(batch, uid)]

\* insert_documents: False when the gateway is not initialised, when an
\* encode raises (eOk = FALSE) or when the upsert raises (uOk = FALSE, or
\* collection_name is None); the points are written by the single upsert
\* after all encodes
insert_documents(q, pts, batch, uid, eOk, uOk) ==
    IF ~q.client \/ ~q.embedding_model THEN [ok |-> FALSE, points |-> pts]
    ELSE IF ~eOk \/ ~uOk \/ ~q.collection_name THEN [ok |-> FALSE, points |-> pts]
    ELSE [ok |-> TRUE, points |-> pts \cup PointsOf(batch, uid)]

\* search: [] when the gateway is not initialised, when the encode of the
\* query raises (eOk = FALSE) or when client.search raises (sOk = FALSE, or
\* collection_name is None); otherwise the server's answer, formatted
search(q, answer, eOk, sOk) ==
    IF ~q.client \/ ~q.embedding_model THEN <<>>
    ELSE IF ~eOk \/ ~sOk \/ ~q.collection_name THEN <<>>
    ELSE answer

----------------------------------------------------------------------------
\* no worker process is initialising; no hybrid search is running
NoWorkers == <<>>
NoHybridSearch == [pc |-> "none"]

\* the gateway before any initialisation
NoGateway == [client |-> FALSE, collection_name |-> FALSE, embedding_model |-> FALSE]

\* a fresh request record
NewReq(op, n) ==
    [op |-> op, pc |-> "idle", call |-> n,
     file_path |-> <<0, 0>>,       \* blob written by the handler
     fallback_path |-> <<0, 0>>,   \* blob written by the fallback helper
     db_document |-> NoDocument,   \* the session's object
     fallback_id |-> 0,            \* id of the row the fallback helper added
     success |-> FALSE,            \* the extractor's success flag
     text_len |-> 0,               \* len(extracted_text) as extracted
     vec_error |-> "",             \* str(vectorization_error)
     db_error |-> "",              \* which statement raised into the db handler
     cleanup |-> "",               \* outcome of the rollback block
     db_cleanup |-> "",            \* outcome of the db handler's file removal
     io_error |-> "",              \* a render / blob write / helper commit raised
     error_reason |-> "",          \* argument of the fallback helper
     init_called |-> FALSE, insert_called |-> FALSE,
     q_before |-> NoGateway,       \* the gateway when initialize_qdrant was called
     init_ok |-> FALSE,            \* what initialize_qdrant returned
     gateway_log |-> <<>>,         \* gateway methods called by the request
     batch_n |-> 0,                \* len(documents_for_qdrant)
     encode_ok |-> TRUE,           \* no encode of the batch / the query raised
     query_ok |-> TRUE,            \* client.search did not raise
     results |-> <<>>, total_results |-> 0, message |-> "",
     http |-> 0, detail |-> <<>>, response |-> NoDocument]

Init ==
    /\ documents = <<>>
    /\ document_chunks = {}
    /\ blobs = {}
    /\ points = {}
    /\ collections = FALSE
    /\ qdrant_client = NoGateway
    /\ req = NewReq("none", 0)
    /\ calls = 0
    /\ workers = NoWorkers
    /\ hs = NoHybridSearch

\* the handler returns the document response
Return(r, d) == [r EXCEPT !.pc = "idle", !.http = 201, !.response = d]

\* the handler raises HTTPException(status, detail)
Raise(r, code, detail) == [r EXCEPT !.pc = "idle", !.http = code, !.detail = detail]

----------------------------------------------------------------------------
\* upload_pdf

\* the extension check, file.read() and the write of the blob
UploadBegin ==
    /\ req.pc = "idle" /\ calls < MaxCalls
    /\ calls' = calls + 1
    /\ \E isPdf \in BOOLEAN, wOk \in BOOLEAN :
         LET r == NewReq("upload_pdf", calls + 1) IN
         IF ~isPdf
         THEN /\ req' = Raise(r, 400, <<"Only PDF files are allowed">>)
              /\ blobs' = blobs
         ELSE IF ~wOk
         THEN /\ req' = Raise([r EXCEPT !.io_error = "write"], 500,
                              <<"Upload failed", "write error">>)
              /\ blobs' = blobs
         ELSE /\ req' = [r EXCEPT !.pc = "u_commit_pending",
                                  !.file_path = <<calls + 1, 1>>]
              /\ blobs' = blobs \cup {<<calls + 1, 1>>}
    /\ UNCHANGED <<documents, document_chunks, points, collections, qdrant_client, workers, hs>>

\* db.add(db_document); db.commit(); db.refresh(db_document)
UploadCommitPending ==
    /\ req.pc = "u_commit_pending"
    /\ \E ok \in BOOLEAN :
         IF ok
         THEN /\ documents' = InsertRow(documents, Document(req.file_path))
              /\ req' = [req EXCEPT !.pc = "u_vectorize",
                           !.db_document = [id |-> NextId(documents),
                                            vectorization_status |-> "pending",
                                            vectorization_error |-> "",
                                            chunks_count |-> 0]]
         ELSE /\ documents' = documents
              /\ req' = [req EXCEPT !.pc = "u_db_error", !.db_error = "commit_pending",
                                    !.detail = <<"commit error">>]
    /\ UNCHANGED <<document_chunks, blobs, points, collections, qdrant_client, calls, workers, hs>>

\* the vectorization try block: initialize_qdrant, process_pdf_to_chunks,
\* insert_documents; on an exception the handler marks the object failed
UploadVectorize ==
    /\ req.pc = "u_vectorize"
    /\ \E cOk \in BOOLEAN, kOk \in BOOLEAN, mOk \in BOOLEAN,
          ext \in {"ok", "empty", "error"}, n \in 1..MaxChunks,
          eOk \in BOOLEAN, uOk \in BOOLEAN :
         LET init == initialize_qdrant(qdrant_client, collections, cOk, kOk, mOk)
             ins  == insert_documents(init.q, points, Batch(req.db_document.id, n),
                                      req.call, eOk, uOk)
             fail(r, msg) == [r EXCEPT !.pc = "u_rollback", !.vec_error = msg,
                                !.db_document = MarkFailed(@, msg)]
             r1 == [req EXCEPT !.init_called = TRUE, !.q_before = qdrant_client,
                               !.init_ok = init.ok, !.gateway_log = init.log]
             r2 == [r1 EXCEPT !.insert_called = TRUE, !.batch_n = n,
                              !.encode_ok = eOk,
                              !.gateway_log = Append(@, Call("insert_documents", ins.ok))]
         IN  /\ qdrant_client' = init.q
             /\ collections' = init.exists
             /\ IF ~init.ok
                THEN req' = fail(r1, InitFailed) /\ points' = points
                ELSE IF ext = "empty"
                THEN req' = fail(r1, NoTextInPdf) /\ points' = points
                ELSE IF ext = "error"
                THEN req' = fail(r1, ExtractorError) /\ points' = points
                ELSE /\ points' = ins.points
                     /\ IF ins.ok
                        THEN req' = [r2 EXCEPT !.pc = "u_final_commit",
                                       !.db_document = MarkCompleted(@, n)]
                        ELSE req' = fail(r2, InsertFailed)
    /\ UNCHANGED <<documents, document_chunks, blobs, calls, workers, hs>>

\* variant: a failing cleanup step replaces the error that is reported
UploadRollback_masked ==
    /\ req.pc = "u_rollback"
    /\ \E rmOk \in BOOLEAN, delOk \in BOOLEAN :
         LET present == req.file_path \in blobs
             removed == present => rmOk
         IN  /\ blobs' = IF present /\ rmOk THEN blobs \ {req.file_path} ELSE blobs
             /\ IF removed /\ delOk
                THEN /\ documents' = DeleteRow(documents, req.db_document.id)
                     /\ document_chunks' = CascadeChunks(document_chunks, req.db_document.id)
                ELSE UNCHANGED <<documents, document_chunks>>
             /\ req' = [req EXCEPT !.pc = "u_db_error", !.db_error = "HTTPException",
                          !.cleanup = IF ~removed THEN "remove_failed"
                                      ELSE IF ~delOk THEN "delete_failed" ELSE "ok",
                          !.detail = IF removed /\ delOk
                                     THEN <<"PDF processing failed", req.vec_error>>
                                     ELSE <<"Cleanup failed">>]
    /\ UNCHANGED <<points, collections, qdrant_client, calls, workers, hs>>

\* the cleanup block of the vectorization handler, then
\* raise HTTPException(500, "PDF processing failed: ..."), which the
\* enclosing "except Exception as db_error" catches
UploadRollback ==
    /\ req.pc = "u_rollback"
    /\ \E rmOk \in BOOLEAN, delOk \in BOOLEAN :
         LET present == req.file_path \in blobs
             removed == present => rmOk
         IN  /\ blobs' = IF present /\ rmOk THEN blobs \ {req.file_path} ELSE blobs
             /\ IF removed /\ delOk
                THEN /\ documents' = DeleteRow(documents, req.db_document.id)
                     /\ document_chunks' = CascadeChunks(document_chunks, req.db_document.id)
                ELSE UNCHANGED <<documents, document_chunks>>
             /\ req' = [req EXCEPT !.pc = "u_db_error", !.db_error = "HTTPException",
                          !.cleanup = IF ~removed THEN "remove_failed"
                                      ELSE IF ~delOk THEN "delete_failed" ELSE "ok",
                          !.detail = <<"PDF processing failed", req.vec_error>>]
    /\ UNCHANGED <<points, collections, qdrant_client, calls, workers, hs>>

\* the final commit of the successful path and the returned response
UploadFinalCommit ==
    /\ req.pc = "u_final_commit"
    /\ \E ok \in BOOLEAN :
         IF ok
         THEN /\ documents' = UpdateRow(documents, req.db_document)
              /\ req' = Return(req, req.db_document)
         ELSE /\ documents' = documents
              /\ req' = [req EXCEPT !.pc = "u_db_error", !.db_error = "final_commit",
                                    !.detail = <<"commit error">>]
    /\ UNCHANGED <<document_chunks, blobs, points, collections, qdrant_client, calls, workers, hs>>

\* "except Exception as db_error": remove the blob, raise HTTPException(500,
\* "Database error: ..."), which the outermost handler turns into
\* HTTPException(500, "Upload failed: ...")
UploadDbError ==
    /\ req.pc = "u_db_error"
    /\ \E rmOk \in BOOLEAN :
         /\ blobs' = IF req.file_path \in blobs /\ rmOk
                     THEN blobs \ {req.file_path} ELSE blobs
         /\ req' = Raise([req EXCEPT !.db_cleanup =
                                IF req.file_path \notin blobs THEN "nothing"
                                ELSE IF rmOk THEN "ok" ELSE "remove_failed"],
                          500, <<"Upload failed", "Database error">> \o req.detail)
    /\ UNCHANGED <<documents, document_chunks, points, collections, qdrant_client, calls, workers, hs>>

upload_pdf ==
    \/ UploadBegin
    \/ UploadCommitPending
    \/ UploadVectorize
    \/ UploadRollback
    \/ UploadFinalCommit
    \/ UploadDbError

----------------------------------------------------------------------------
\* url_to_pdf

\* extraction by the extractor, page.pdf() of the rendered page, and the
\* test for substantial text
UrlBegin ==
    /\ req.pc = "idle" /\ calls < MaxCalls
    /\ calls' = calls + 1
    /\ \E success \in BOOLEAN, len \in TextLens, pdfOk \in BOOLEAN :
         LET r == [NewReq("url_to_pdf", calls + 1) EXCEPT
                      !.success = success, !.text_len = len]
         IN  IF ~pdfOk
             THEN req' = Raise([r EXCEPT !.io_error = "render"], 500,
                               <<"Failed to process URL", "render error">>)
             ELSE IF Substantial(success, len)
             THEN req' = [r EXCEPT !.pc = "l_save"]
             ELSE req' = [r EXCEPT !.pc = "w_create", !.error_reason = NoSubstantial]
    /\ UNCHANGED <<documents, document_chunks, blobs, points, collections, qdrant_client, workers, hs>>

\* read of the rendered PDF and write of the blob; an exception reaches
\* "except Exception as e", which calls the fallback helper
UrlSaveBlob ==
    /\ req.pc = "l_save"
    /\ \E wOk \in BOOLEAN :
         IF wOk
         THEN /\ blobs' = blobs \cup {<<req.call, 1>>}
              /\ req' = [req EXCEPT !.pc = "l_commit_pending",
                                    !.file_path = <<req.call, 1>>]
         ELSE /\ blobs' = blobs
              /\ req' = [req EXCEPT !.pc = "w_create", !.error_reason = FallbackReason]
    /\ UNCHANGED <<documents, document_chunks, points, collections, qdrant_client, calls, workers, hs>>

\* db.add(db_document); db.commit(); db.refresh(db_document)
UrlCommitPending ==
    /\ req.pc = "l_commit_pending"
    /\ \E ok \in BOOLEAN :
         IF ok
         THEN /\ documents' = InsertRow(documents, Document(req.file_path))
              /\ req' = [req EXCEPT !.pc = "l_vectorize",
                           !.db_document = [id |-> NextId(documents),
                                            vectorization_status |-> "pending",
                                            vectorization_error |-> "",
                                            chunks_count |-> 0]]
         ELSE /\ documents' = documents
              /\ req' = [req EXCEPT !.pc = "w_create", !.db_error = "commit_pending",
                                    !.db_document = NoDocument,
                                    !.error_reason = FallbackReason]
    /\ UNCHANGED <<document_chunks, blobs, points, collections, qdrant_client, calls, workers, hs>>

\* the vectorization try block: initialize_qdrant, split_text,
\* insert_documents; "except Exception as vectorization_error" only marks the
\* object failed and falls through to the final commit
UrlVectorize ==
    /\ req.pc = "l_vectorize"
    /\ \E cOk \in BOOLEAN, kOk \in BOOLEAN, mOk \in BOOLEAN, sOk \in BOOLEAN,
          n \in 1..MaxChunks, eOk \in BOOLEAN, uOk \in BOOLEAN :
         LET init == initialize_qdrant(qdrant_client, collections, cOk, kOk, mOk)
             ins  == insert_documents(init.q, points, Batch(req.db_document.id, n),
                                      req.call, eOk, uOk)
             fail(r, msg) == [r EXCEPT !.pc = "l_final_commit", !.vec_error = msg,
                                !.db_document = MarkFailed(@, msg)]
             r1 == [req EXCEPT !.init_called = TRUE, !.q_before = qdrant_client,
                               !.init_ok = init.ok, !.gateway_log = init.log]
             r2 == [r1 EXCEPT !.insert_called = TRUE, !.batch_n = n,
                              !.encode_ok = eOk,
                              !.gateway_log = Append(@, Call("insert_documents", ins.ok))]
         IN  /\ qdrant_client' = init.q
             /\ collections' = init.exists
             /\ IF ~init.ok
                THEN req' = fail(r1, InitFailed) /\ points' = points
                ELSE IF ~sOk
                THEN req' = fail(r1, SplitterError) /\ points' = points
                ELSE /\ points' = ins.points
                     /\ IF ins.ok
                        THEN req' = [r2 EXCEPT !.pc = "l_final_commit",
                                       !.db_document = MarkCompleted(@, n)]
                        ELSE req' = fail(r2, InsertFailed)
    /\ UNCHANGED <<documents, document_chunks, blobs, calls, workers, hs>>

\* the final commit, then os.remove(tmp_pdf.name) and return result; a
\* failing commit reaches "except Exception as e" and the fallback helper,
\* a failing os.remove the outermost handler
UrlFinalCommit ==
    /\ req.pc = "l_final_commit"
    /\ \E ok \in BOOLEAN, rmTmpOk \in BOOLEAN :
         IF ok
         THEN /\ documents' = UpdateRow(documents, req.db_document)
              /\ req' = IF rmTmpOk THEN Return(req, req.db_document)
                        ELSE Raise([req EXCEPT !.io_error = "remove_tmp"], 500,
                                   <<"Failed to process URL", "remove error">>)
         ELSE /\ documents' = documents
              /\ req' = [req EXCEPT !.pc = "w_create", !.db_error = "final_commit",
                                    !.error_reason = FallbackReason]
    /\ UNCHANGED <<document_chunks, blobs, points, collections, qdrant_client, calls, workers, hs>>

\* create_pdf_document_without_vectorization: write a blob and add a record
\* that is failed from the start.  Its HTTPException is caught by the
\* outermost handler of url_to_pdf and raised again.  After a failed commit
\* in the same session the objects of that transaction are gone from the
\* session, so only the new record is written here.
CreateWithoutVectorization ==
    /\ req.pc = "w_create"
    /\ \E wOk \in BOOLEAN, ok \in BOOLEAN :
         LET path == <<req.call, 2>> IN
         IF ~wOk
         THEN /\ UNCHANGED <<blobs, documents>>
              /\ req' = Raise([req EXCEPT !.io_error = "write"], 500,
                              <<"Failed to process URL", "Failed to save PDF document",
                                "write error">>)
         ELSE /\ blobs' = blobs \cup {path}
              /\ IF ok
                 THEN /\ documents' = InsertRow(documents,
                                         FailedDocument(path, req.error_reason))
                      /\ req' = Return([req EXCEPT !.fallback_path = path,
                                                   !.fallback_id = NextId(documents)],
                                       [id |-> NextId(documents),
                                        vectorization_status |-> "failed",
                                        vectorization_error |-> req.error_reason,
                                        chunks_count |-> 0])
                 ELSE /\ documents' = documents
                      /\ req' = Raise([req EXCEPT !.fallback_path = path,
                                                  !.io_error = "commit"], 500,
                                      <<"Failed to process URL",
                                        "Failed to save PDF document", "commit error">>)
    /\ UNCHANGED <<document_chunks, points, collections, qdrant_client, calls, workers, hs>>

url_to_pdf ==
    \/ UrlBegin
    \/ UrlSaveBlob
    \/ UrlCommitPending
    \/ UrlVectorize
    \/ UrlFinalCommit
    \/ CreateWithoutVectorization

----------------------------------------------------------------------------
\* search_documents

Limits == 1..MaxLimit

\* sequences of k distinct elements of S
RECURSIVE DistinctSeqs(_, _)
DistinctSeqs(S, k) ==
    IF k = 0 THEN {<<>>}
    ELSE UNION {{<<x>> \o t : t \in DistinctSeqs(S \ {x}, k - 1)} : x \in S}

Min(a, b) == IF a <= b THEN a ELSE b

\* what client.search can answer for a query: up to limit points of the
\* collection, in the order of their similarity to the query
Answers(pts, limit) == DistinctSeqs(pts, Min(limit, Cardinality(pts)))

\* client.search answers only when it is reached and does not raise
ServerAnswers(pts, limit, reached) ==
    IF reached THEN Answers(pts, limit) ELSE {<<>>}

\* the formatting loop over search_results: a hit is skipped when it is
\* below min_confidence (i \notin pass) or when its document is not in the
\* table
RECURSIVE FormatResults(_, _, _, _)
FormatResults(res, pass, docs, i) ==
    IF i > Len(res) THEN <<>>
    ELSE IF i \in pass /\ res[i].document_id # 0 /\ res[i].document_id \in DOMAIN docs
    THEN <<res[i]>> \o FormatResults(res, pass, docs, i + 1)
    ELSE FormatResults(res, pass, docs, i + 1)

\* variant: the hits the gateway returned are counted
TotalResults_fetched(search_results, formatted_results) == Len(search_results)

\* "total_results": len(formatted_results)
TotalResults(search_results, formatted_results) == Len(formatted_results)

\* the whole handler: initialize_qdrant, qdrant_client.search, formatting
search_documents ==
    /\ req.pc = "idle" /\ calls < MaxCalls
    /\ calls' = calls + 1
    /\ \E cOk \in BOOLEAN, kOk \in BOOLEAN, mOk \in BOOLEAN,
          eOk \in BOOLEAN, sOk \in BOOLEAN, limit \in Limits :
       \E answer \in ServerAnswers(points, limit, cOk /\ kOk /\ mOk /\ eOk /\ sOk) :
       \E pass \in SUBSET (1..Len(answer)) :
         LET init == initialize_qdrant(qdrant_client, collections, cOk, kOk, mOk)
             res  == search(init.q, answer, eOk, sOk)
             out  == FormatResults(res, pass, documents, 1)
             r1 == [NewReq("search_documents", calls + 1) EXCEPT
                       !.init_called = TRUE, !.q_before = qdrant_client,
                       !.init_ok = init.ok, !.gateway_log = init.log]
             r2 == [r1 EXCEPT !.encode_ok = eOk, !.query_ok = sOk,
                              !.gateway_log = Append(@, Call("search", eOk /\ sOk))]
         IN  /\ qdrant_client' = init.q
             /\ collections' = init.exists
             /\ IF ~init.ok
                THEN req' = Raise(r1, 500, <<"Vector search service unavailable">>)
                ELSE IF res = <<>>
                THEN req' = [r2 EXCEPT !.http = 200, !.message = "No results found"]
                ELSE req' = [r2 EXCEPT !.http = 200, !.results = out,
                                       !.total_results = TotalResults(res, out)]
    /\ UNCHANGED <<documents, document_chunks, blobs, points, workers, hs>>

----------------------------------------------------------------------------
Next == upload_pdf \/ url_to_pdf \/ search_documents

Spec == Init /\ [][Next]_vars

----------------------------------------------------------------------------
\* Properties

Finished(op) == req.pc = "idle" /\ req.op = op

\* blobs and records the last request created and that are still there
BlobsOfCall == {b \in blobs : b[1] = req.call}
ChunksOf(id) == {c \in document_chunks : c.document_id = id}
PointsOfDocument(id) == {p \in points : p.document_id = id}
Persisted(id) == id \in DOMAIN documents

\* C1: when initialisation, extraction or insert_documents fails in
\* upload_pdf after the pending record was committed, and the rollback's
\* file removal and record deletion succeed, then at the end of the call the
\* blob is gone, the record is deleted, it has no chunk record, and the
\* caller gets HTTP 500 and no document.
C1_UploadRollbackAtomic ==
    (Finished("upload_pdf") /\ req.vec_error # "" /\ req.cleanup = "ok")
    => /\ req.file_path \notin blobs
       /\ ~Persisted(req.db_document.id)
       /\ ChunksOf(req.db_document.id) = {}
       /\ req.http = 500
       /\ req.response = NoDocument

C1_Witness ==
    /\ Finished("upload_pdf") /\ req.vec_error = InsertFailed /\ req.cleanup = "ok"
    /\ req.http = 500
    /\ documents # <<>>

\* C2: when initialisation or insert_documents fails in url_to_pdf after the
\* pending record was committed, then at the end of the call the record and
\* its blob no longer exist and the caller gets an error.
C2_UrlStoreFailureRollsBack ==
    (Finished("url_to_pdf") /\ req.vec_error \in {InitFailed, InsertFailed})
    => /\ ~Persisted(req.db_document.id)
       /\ req.file_path \notin blobs
       /\ req.http = 500
       /\ req.response = NoDocument

\* C3: after an upload_pdf or url_to_pdf call has ended, whatever steps
\* failed, the record the call committed is not persisted as pending.
C3_NoPendingAfterCall ==
    (req.pc = "idle" /\ req.op \in {"upload_pdf", "url_to_pdf"}
        /\ Persisted(req.db_document.id))
    => documents[req.db_document.id].vectorization_status # "pending"

\* C4: a persisted completed document has one chunk record per point of its
\* batch, with the same ordinals, so their number equals chunks_count.
C4_FragmentsMirrorBatch ==
    \A id \in DOMAIN documents :
        documents[id].vectorization_status = "completed"
        => /\ Cardinality(ChunksOf(id)) = documents[id].chunks_count
           /\ {c.chunk_index : c \in ChunksOf(id)}
                = {p.chunk_index : p \in PointsOfDocument(id)}

\* C5: every persisted record that is completed has chunks_count equal to
\* the number of chunks of the batch insert_documents accepted for it; every
\* persisted record that is pending or failed has chunks_count 0.
C5_ChunksCount ==
    \A id \in DOMAIN documents :
        /\ documents[id].vectorization_status = "completed"
           => documents[id].chunks_count = Cardinality(PointsOfDocument(id))
        /\ documents[id].vectorization_status \in {"pending", "failed"}
           => documents[id].chunks_count = 0

C5_Witness ==
    \E i \in DOMAIN documents, j \in DOMAIN documents :
        /\ documents[i].vectorization_status = "completed"
        /\ documents[i].chunks_count = MaxChunks
        /\ documents[j].vectorization_status = "failed"
        /\ req.pc = "idle"

\* C6 as stated: for every persisted failed record the blob named by its
\* file_path does not exist and no point carries its document id.
C6_FailedOwnsNothing ==
    \A id \in DOMAIN documents :
        documents[id].vectorization_status = "failed"
        => /\ documents[id].file_path \notin blobs
           /\ PointsOfDocument(id) = {}

\* C6 amended: for every persisted failed record no point of the
\* collection carries its document id.
C6_FailedHasNoPoints ==
    \A id \in DOMAIN documents :
        documents[id].vectorization_status = "failed" => PointsOfDocument(id) = {}

C6_Witness ==
    /\ Finished("url_to_pdf") /\ req.vec_error = InsertFailed
    /\ Persisted(req.db_document.id)
    /\ documents[req.db_document.id].vectorization_status = "failed"
    /\ points # {}

\* the case of C7: success = False or at most 100 characters of text
InsufficientText == ~req.success \/ req.text_len <= 100

\* record of a soft extraction failure, as persisted and as returned
SoftFailureRecorded ==
    /\ req.http = 201
    /\ req.response.vectorization_status = "failed"
    /\ req.response.chunks_count = 0
    /\ Persisted(req.response.id)
    /\ documents[req.response.id].vectorization_status = "failed"
    /\ documents[req.response.id].vectorization_error = NoSubstantial
    /\ documents[req.response.id].chunks_count = 0

\* C7 as stated: whenever url_to_pdf gets insufficient text, the call
\* returns normally with a persisted failed record whose reason is the
\* no-substantial-text message and whose chunks_count is 0, and neither the
\* initialisation nor insert_documents is invoked.
C7_SoftExtractionFailure ==
    (Finished("url_to_pdf") /\ InsufficientText)
    => /\ SoftFailureRecorded
       /\ ~req.init_called /\ ~req.insert_called

\* C7 amended: whenever url_to_pdf gets insufficient text, neither the
\* initialisation nor insert_documents is invoked, and the call returns
\* normally with the persisted failed record described above unless
\* rendering the page, writing the blob or committing the record raised, in
\* which case it ends with HTTP 500 and no record.
C7_SoftExtractionFailureUnlessIO ==
    (Finished("url_to_pdf") /\ InsufficientText)
    => /\ ~req.init_called /\ ~req.insert_called
       /\ IF req.io_error = ""
          THEN SoftFailureRecorded
          ELSE /\ req.http = 500
               /\ req.response = NoDocument
               /\ req.fallback_id = 0 /\ req.db_document = NoDocument

C7_Witness ==
    /\ Finished("url_to_pdf") /\ req.success /\ req.text_len = 40
    /\ SoftFailureRecorded

\* C8: when the extraction of the uploaded PDF yields no text, upload_pdf
\* does not end in a request-level error and the record stays persisted
\* with status failed and a reason.
C8_EmptyPdfSoftFailure ==
    (Finished("upload_pdf") /\ req.vec_error = NoTextInPdf)
    => /\ req.http = 201
       /\ Persisted(req.db_document.id)
       /\ documents[req.db_document.id].vectorization_status = "failed"
       /\ documents[req.db_document.id].vectorization_error # ""

\* C9: when the blob was written and the commit of the pending record
\* fails, the call ends with an error and neither a record nor a blob
\* created by the call exists afterwards (stated here for the calls in
\* which no file removal raised).
C9_FailedFirstCommitLeavesNothing ==
    (req.pc = "idle" /\ req.db_error = "commit_pending"
        /\ req.db_cleanup # "remove_failed")
    => /\ req.http = 500
       /\ BlobsOfCall = {}
       /\ req.fallback_id = 0 /\ req.db_document = NoDocument

\* one step keeps the status of a record that is completed or failed
TerminalStatusKept ==
    \A id \in DOMAIN documents \cap DOMAIN documents' :
        /\ documents'[id].vectorization_status \in {"pending", "completed", "failed"}
        /\ documents[id].vectorization_status \in {"completed", "failed"}
           => documents'[id].vectorization_status = documents[id].vectorization_status

----------------------------------------------------------------------------
\* Properties of the gateway and of search_documents

\* the points one insert_documents call wrote
PointsOfBatch(uid) == {p \in points : p.id[1] = uid}

\* C11: for every persisted completed document the chunk_index values of
\* the points carrying its id are exactly 0..chunks_count-1, each once,
\* and all points of one batch carry the same document id.
C11_OrdinalDensity ==
    /\ \A id \in DOMAIN documents :
          documents[id].vectorization_status = "completed"
          => /\ {p.chunk_index : p \in PointsOfDocument(id)}
                  = 0..(documents[id].chunks_count - 1)
             /\ Cardinality(PointsOfDocument(id)) = documents[id].chunks_count
    /\ \A p \in points, q \in points :
          p.id[1] = q.id[1] => p.document_id = q.document_id

C11_Witness ==
    \E id \in DOMAIN documents :
        /\ documents[id].vectorization_status = "completed"
        /\ documents[id].chunks_count = MaxChunks
        /\ Cardinality(PointsOfDocument(id)) = MaxChunks

\* the step in which a handler calls insert_documents
InsertStep == req'.insert_called /\ ~req.insert_called

\* what that insert_documents call returned
InsertReturned == req'.gateway_log[Len(req'.gateway_log)].ok

\* C12: insert_documents writes the whole batch or nothing: when an encode
\* of the batch fails it returns False and the collection is unchanged; when
\* it returns False for any reason the collection is unchanged; when it
\* returns True exactly one new point per document of the batch was added,
\* each under an id that was not in the collection before.
C12_InsertAllOrNothing ==
    [][InsertStep =>
         /\ ~req'.encode_ok => ~InsertReturned
         /\ ~InsertReturned => points' = points
         /\ InsertReturned =>
              /\ points \subseteq points'
              /\ Cardinality(points' \ points) = req'.batch_n
              /\ \A p \in points' \ points :
                    /\ p.id \notin {q.id : q \in points}
                    /\ p.document_id = req'.db_document.id
              /\ {p.chunk_index : p \in points' \ points} = 0..(req'.batch_n - 1)]_vars

C12_Witness ==
    /\ req.insert_called /\ ~req.encode_ok /\ req.batch_n = MaxChunks
    /\ points # {} /\ PointsOfBatch(req.call) = {}

\* the order in which a request may call the gateway
GatewayOrder == <<"connect", "initialize_collection", "load_embedding_model">>

\* C13: in every request insert_documents / search is called only after
\* connect, initialize_collection and load_embedding_model returned success
\* in that order in the same request, and a step is attempted only when
\* every earlier step succeeded.
C13_InitBeforeUse ==
    LET log == req.gateway_log IN
    /\ Len(log) <= 4
    /\ \A i \in DOMAIN log :
          /\ i <= 3 => log[i].name = GatewayOrder[i]
          /\ i = 4 => log[i].name \in {"insert_documents", "search"}
          /\ i > 1 => log[i - 1].ok
    /\ req.insert_called => Len(log) = 4 /\ log[4].name = "insert_documents"

C13_Witness ==
    /\ Finished("search_documents")
    /\ Len(req.gateway_log) = 4
    /\ req.gateway_log[4].name = "search"
    /\ req.results # <<>>

Ready(q) == q.client /\ q.collection_name /\ q.embedding_model
Unset(q) == ~q.client /\ ~q.collection_name /\ ~q.embedding_model

\* C14: after initialize_qdrant has returned False on a gateway that was
\* uninitialised, the gateway is not partially ready: client,
\* collection_name and embedding_model are all set or all unset.
C14_NoPartialReady ==
    (req.init_called /\ ~req.init_ok /\ Unset(req.q_before))
    => (Ready(qdrant_client) \/ Unset(qdrant_client))

\* C16: once initialize_qdrant has succeeded in the process, a later
\* request does not connect, check or create the collection or load the
\* embedding model again.
C16_InitOnce ==
    (req.init_called /\ Ready(req.q_before))
    => \A i \in DOMAIN req.gateway_log :
          req.gateway_log[i].name \notin
              {"connect", "initialize_collection", "load_embedding_model"}

\* the three failure causes of the gateway
Causes == {"connection", "collection", "embedding"}

\* what initialize_qdrant returns to the endpoint for a failure cause
InitReturn(cause) ==
    initialize_qdrant(qdrant_client, collections, cause # "connection",
                      cause # "collection", cause # "embedding").ok

ReadyGateway == [client |-> TRUE, collection_name |-> TRUE, embedding_model |-> TRUE]

\* what insert_documents returns to the endpoint for a failure cause
InsertReturn(cause) ==
    insert_documents([ReadyGateway EXCEPT !.collection_name = cause # "collection"],
                     points, Batch(1, 1), 0,
                     cause # "embedding", cause # "connection").ok

\* what search returns to the endpoint for a failure cause
SearchReturn(cause) ==
    search([ReadyGateway EXCEPT !.collection_name = cause # "collection"],
           <<>>, cause # "embedding", cause # "connection")

\* C17: for initialize_qdrant, insert_documents and search no two of the
\* three failure causes give the caller the same returned value.
C17_CausesDistinguishable ==
    \A c1 \in Causes, c2 \in Causes :
        c1 # c2 => /\ InitReturn(c1) # InitReturn(c2)
                   /\ InsertReturn(c1) # InsertReturn(c2)
                   /\ SearchReturn(c1) # SearchReturn(c2)

\* C18: when the initialisation or the query itself fails during a search
\* request, search_documents answers with an error saying the service is
\* unavailable, never with a successful empty result.
C18_SearchFailureIsError ==
    (Finished("search_documents")
        /\ (~req.init_ok \/ ~req.encode_ok \/ ~req.query_ok))
    => /\ req.http = 500
       /\ req.detail = <<"Vector search service unavailable">>
       /\ req.message # "No results found"

----------------------------------------------------------------------------
\* Two worker processes, each with its own gateway object, initialise against
\* one Qdrant server.  initialize_qdrant is cut at its calls to the server.

Initializers == {1, 2}

\* a worker process before its first request
NewWorker ==
    [pc |-> "connect", q |-> NoGateway, collection_exists |-> FALSE,
     result |-> "", fault |-> FALSE, created_existing |-> FALSE, round |-> 1]

InitRace ==
    /\ documents = <<>>
    /\ document_chunks = {}
    /\ blobs = {}
    /\ points = {}
    /\ collections = FALSE
    /\ qdrant_client = NoGateway
    /\ req = NewReq("none", 0)
    /\ calls = 0
    /\ workers = [w \in Initializers |-> NewWorker]
    /\ hs = NoHybridSearch

\* initialize_qdrant returns False
RaceFail(wk) == [wk EXCEPT !.pc = "done", !.result = "failed"]

\* qdrant_client.connect()
RaceConnect(w) ==
    /\ workers[w].pc = "connect"
    /\ \E cOk \in BOOLEAN :
         LET wk == [workers[w] EXCEPT !.q = connect(@, cOk)]
         IN  workers' = [workers EXCEPT ![w] =
                 IF cOk THEN [wk EXCEPT !.pc = "get_collections"]
                 ELSE RaceFail([wk EXCEPT !.fault = TRUE])]
    /\ UNCHANGED <<documents, document_chunks, blobs, points, collections,
                   qdrant_client, req, calls, hs>>

\* initialize_collection up to the test of collection_exists
RaceGetCollections(w) ==
    /\ workers[w].pc = "get_collections"
    /\ \E ok \in BOOLEAN :
         LET wk == [workers[w] EXCEPT !.q = initialize_collection(@)]
         IN  workers' = [workers EXCEPT ![w] =
                 IF ~ok THEN RaceFail([wk EXCEPT !.fault = TRUE])
                 ELSE [wk EXCEPT !.collection_exists = collections,
                                 !.pc = IF collections THEN "load_embedding_model"
                                        ELSE "create_collection"]]
    /\ UNCHANGED <<documents, document_chunks, blobs, points, collections,
                   qdrant_client, req, calls, hs>>

\* client.create_collection(...): the server refuses to create a collection
\* that exists, and the call can fail for a reason of its own
RaceCreateCollection(w) ==
    /\ workers[w].pc = "create_collection"
    /\ IF collections
       THEN /\ workers' = [workers EXCEPT ![w] =
                              RaceFail([@ EXCEPT !.created_existing = TRUE])]
            /\ UNCHANGED collections
       ELSE \E ok \in BOOLEAN :
              /\ collections' = ok
              /\ workers' = [workers EXCEPT ![w] =
                     IF ok THEN [@ EXCEPT !.pc = "load_embedding_model"]
                     ELSE RaceFail([@ EXCEPT !.fault = TRUE])]
    /\ UNCHANGED <<documents, document_chunks, blobs, points,
                   qdrant_client, req, calls, hs>>

\* qdrant_client.load_embedding_model() and the return of initialize_qdrant
RaceLoadModel(w) ==
    /\ workers[w].pc = "load_embedding_model"
    /\ \E mOk \in BOOLEAN :
         LET wk == [workers[w] EXCEPT !.q = load_embedding_model(@, mOk)]
         IN  workers' = [workers EXCEPT ![w] =
                 IF mOk THEN [wk EXCEPT !.pc = "done", !.result = "ok"]
                 ELSE RaceFail([wk EXCEPT !.fault = TRUE])]
    /\ UNCHANGED <<documents, document_chunks, blobs, points, collections,
                   qdrant_client, req, calls, hs>>

\* the next request of the worker calls initialize_qdrant again
RaceNextRequest(w) ==
    /\ workers[w].pc = "done"
    /\ workers[w].round < MaxRounds
    /\ workers' = [workers EXCEPT ![w] =
           [@ EXCEPT !.pc = "connect", !.result = "", !.fault = FALSE,
                     !.round = @ + 1]]
    /\ UNCHANGED <<documents, document_chunks, blobs, points, collections,
                   qdrant_client, req, calls, hs>>

NextRace ==
    \E w \in Initializers :
        \/ RaceConnect(w)
        \/ RaceGetCollections(w)
        \/ RaceCreateCollection(w)
        \/ RaceLoadModel(w)
        \/ RaceNextRequest(w)

SpecRace == InitRace /\ [][NextRace]_vars

\* C15: when two initialisers run initialize_collection in any interleaving
\* against a server that does not have the collection yet, create_collection
\* is never invoked for a collection that exists, and every initialiser that
\* met no failure of the server or of the model loader finishes successfully.
C15_ConcurrentInitSafe ==
    \A w \in Initializers :
        /\ ~workers[w].created_existing
        /\ (workers[w].pc = "done" /\ ~workers[w].fault)
           => workers[w].result = "ok"

----------------------------------------------------------------------------
\* HybridSearchEngine.  A text is a sequence of characters.  A semantic score
\* is counted in thousandths, a keyword score of a query of n words in units
\* of 1/(10 n), a hybrid score in units of 1/(10000 n); the scores of one
\* search share n, so their order is the order of the numerators.  The
\* rounding of the floating-point sums is left out.

\* str.lower()
Lower(s) ==
    [i \in DOMAIN s |-> IF s[i] = "A" THEN "a" ELSE IF s[i] = "B" THEN "b" ELSE s[i]]

\* str.split(): the maximal runs of non-blank characters
RECURSIVE SplitFrom(_, _, _)
SplitFrom(s, i, word) ==
    IF i > Len(s) THEN (IF word = <<>> THEN <<>> ELSE <<word>>)
    ELSE IF s[i] = " "
         THEN (IF word = <<>> THEN <<>> ELSE <<word>>) \o SplitFrom(s, i + 1, <<>>)
         ELSE SplitFrom(s, i + 1, Append(word, s[i]))

Split(s) == SplitFrom(s, 1, <<>>)

\* the positions at which word occurs in text: text.find(word, start) in a loop
Occurrences(word, text) ==
    {i \in 1..(Len(text) - Len(word) + 1) : SubSeq(text, i, i + Len(word) - 1) = word}

\* word in text
Contains(word, text) == word = <<>> \/ Occurrences(word, text) # {}

\* variant: a word repeated in the query is counted once
MatchedWords_distinct(query_words, text_lower) ==
    Cardinality({query_words[i] : i \in {j \in DOMAIN query_words :
                                            Contains(query_words[j], text_lower)}})

\* sum(1 for word in query_words if word in text_lower)
MatchedWords(query_words, text_lower) ==
    Cardinality({i \in DOMAIN query_words : Contains(query_words[i], text_lower)})

Abs(x) == IF x < 0 THEN -x ELSE x

\* _calculate_proximity_bonus, in tenths: 0.3 when two entries of words_found
\* have occurrences at most proximity_distance apart
_calculate_proximity_bonus(query_words, text_lower) ==
    LET words_found == {i \in DOMAIN query_words :
                            Occurrences(query_words[i], text_lower) # {}}
    IN  IF \E i \in words_found, j \in words_found :
              /\ i # j
              /\ \E pos1 \in Occurrences(query_words[i], text_lower),
                    pos2 \in Occurrences(query_words[j], text_lower) :
                    Abs(pos1 - pos2) <= PROXIMITY_DISTANCE
        THEN 3 ELSE 0

\* the loop "for word in query_words: if word in text_lower:
\* matched_words += 1", from word i on
RECURSIVE CountMatches(_, _, _)
CountMatches(query_words, text_lower, i) ==
    IF i > Len(query_words) THEN 0
    ELSE (IF Contains(query_words[i], text_lower) THEN 1 ELSE 0)
         + CountMatches(query_words, text_lower, i + 1)

\* variant: the phrase bonus and the proximity bonus are both added
calculate_keyword_score_both(query_text, document_text) ==
    LET query_words == Split(Lower(query_text))
        query_lower == Lower(query_text)
        text_lower  == Lower(document_text)
        matched_words == CountMatches(query_words, text_lower, 1)
        bonus == IF Len(query_words) > 1
                 THEN (IF Contains(query_lower, text_lower) THEN 5 ELSE 0)
                      + (IF matched_words >= 2
                         THEN _calculate_proximity_bonus(query_words, text_lower)
                         ELSE 0)
                 ELSE 0
    IN  IF query_words = <<>> THEN 0 ELSE 10 * matched_words + bonus

\* calculate_keyword_score, numerator in units of 1/(10 len(query_words))
calculate_keyword_score(query_text, document_text) ==
    LET query_words == Split(Lower(query_text))
        query_lower == Lower(query_text)
        text_lower  == Lower(document_text)
        matched_words == CountMatches(query_words, text_lower, 1)
        bonus == IF Len(query_words) > 1
                 THEN IF Contains(query_lower, text_lower) THEN 5
                      ELSE IF matched_words >= 2
                           THEN _calculate_proximity_bonus(query_words, text_lower)
                           ELSE 0
                 ELSE 0
    IN  IF query_words = <<>> THEN 0 ELSE 10 * matched_words + bonus

\* the weighted sum, numerator in units of 1/(10000 total_words); the
\* weights are in tenths
Weighted(ws, wk, semantic_score, keyword_score, total_words) ==
    ws * semantic_score * total_words + 100 * wk * keyword_score

\* variant: the weights of the engine are used for every candidate
calculate_hybrid_score_configured(self, semantic_score, keyword_score, matched_words, total_words) ==
    Weighted(self.semantic_weight, self.keyword_weight,
             semantic_score, keyword_score, total_words)

\* calculate_hybrid_score: 0.6 / 0.4 when every query word matched, else the
\* weights of the engine
calculate_hybrid_score(self, semantic_score, keyword_score, matched_words, total_words) ==
    IF matched_words = total_words
    THEN Weighted(FULL_MATCH_SEMANTIC, FULL_MATCH_KEYWORD,
                  semantic_score, keyword_score, total_words)
    ELSE Weighted(self.semantic_weight, self.keyword_weight,
                  semantic_score, keyword_score, total_words)

\* list.sort(key = score, reverse = True) is stable: x goes behind every
\* element whose score is not smaller
RECURSIVE InsertDesc(_, _)
InsertDesc(sorted, x) ==
    IF sorted = <<>> THEN <<x>>
    ELSE IF Head(sorted).score >= x.score
         THEN <<Head(sorted)>> \o InsertDesc(Tail(sorted), x)
         ELSE <<x>> \o sorted

RECURSIVE SortDescFrom(_, _, _)
SortDescFrom(seq, i, acc) ==
    IF i > Len(seq) THEN acc ELSE SortDescFrom(seq, i + 1, InsertDesc(acc, seq[i]))

\* variant: candidates of equal score come out in reversed order
SortDesc_reversed(seq) ==
    SortDescFrom([i \in DOMAIN seq |-> seq[Len(seq) + 1 - i]], 1, <<>>)

SortDesc(seq) == SortDescFrom(seq, 1, <<>>)

\* variant: semantic_score is read after score was replaced
HybridResult_overwritten(self, query_text, result) ==
    LET query_words == Split(Lower(query_text))
        keyword_score == calculate_keyword_score(query_text, result.text)
        matched_words == MatchedWords(query_words, Lower(result.text))
        hybrid_score == calculate_hybrid_score(self, result.score, keyword_score,
                                               matched_words, Len(query_words))
    IN  [id |-> result.id, text |-> result.text, metadata |-> result.metadata,
         score |-> hybrid_score,
         semantic_score |-> hybrid_score, keyword_score |-> keyword_score]

\* the enhanced result of one candidate: {**result, 'score': hybrid_score,
\* 'semantic_score': semantic_score, 'keyword_score': keyword_score}
HybridResult(self, query_text, result) ==
    LET query_words == Split(Lower(query_text))
        keyword_score == calculate_keyword_score(query_text, result.text)
        matched_words == MatchedWords(query_words, Lower(result.text))
        hybrid_score == calculate_hybrid_score(self, result.score, keyword_score,
                                               matched_words, Len(query_words))
    IN  [id |-> result.id, text |-> result.text, metadata |-> result.metadata,
         score |-> hybrid_score,
         semantic_score |-> result.score, keyword_score |-> keyword_score]

\* variant: the candidates are scored and sorted for every query
rerank_results_always(self, query_text, semantic_results) ==
    SortDesc([i \in DOMAIN semantic_results |->
                 HybridResult(self, query_text, semantic_results[i])])

\* rerank_results
rerank_results(self, query_text, semantic_results) ==
    IF Split(Lower(query_text)) = <<>> THEN semantic_results
    ELSE SortDesc([i \in DOMAIN semantic_results |->
                      HybridResult(self, query_text, semantic_results[i])])

\* hybrid_results[:limit]
Truncate(seq, limit) == SubSeq(seq, 1, Min(limit, Len(seq)))

\* qdrant_client.search as semantic_search_func on an initialised gateway:
\* the best `limit` points of the collection, or [] when the call failed
Semantic(collection, limit, ok) ==
    search(ReadyGateway, Truncate(collection, limit), ok, ok)

\* semantic_limit = max(limit * 4, 20)
semantic_limit(limit) ==
    IF limit * OVERFETCH_FACTOR > MIN_SEMANTIC_LIMIT
    THEN limit * OVERFETCH_FACTOR ELSE MIN_SEMANTIC_LIMIT

\* the inputs of the searches
Pad(n) == [i \in 1..n |-> "."]
Near == <<"a">> \o Pad(PROXIMITY_DISTANCE - 1) \o <<"b">>
Far  == <<"a">> \o Pad(PROXIMITY_DISTANCE) \o <<"b">>
Texts == {<<"c">>, <<"A">>, <<"a", " ", "b">>, <<"b", " ", "a">>, Near, Far}
Queries == {<<>>, <<" ">>, <<"a">>, <<"A", " ", "b">>, <<"a", " ", "b", " ">>,
            <<"a", " ", "a">>}
SemScores == {900, 800, 500}

\* the collection as the server ranks it for the query: best score first
RankedLists ==
    UNION {{[i \in 1..n |-> [id |-> i, text |-> f[i][1], score |-> f[i][2],
                             metadata |-> [chunk_index |-> i - 1]]] :
              f \in {g \in [1..n -> Texts \X SemScores] :
                        \A i \in 1..(n - 1) : g[i][2] >= g[i + 1][2]}} :
           n \in 0..MaxCandidates}

\* HybridSearchEngine(): the default weights, and an engine configured with
\* other weights
DefaultEngine == [semantic_weight |-> 7, keyword_weight |-> 3]
Engines == {DefaultEngine, [semantic_weight |-> 5, keyword_weight |-> 5]}

NewHybridSearch(self, query_text, collection, limit) ==
    [pc |-> "fetch", self |-> self, query_text |-> query_text,
     collection |-> collection, limit |-> limit, semantic_results |-> <<>>,
     hybrid_results |-> <<>>, queries |-> 0,
     fetch_ok |-> TRUE, rerank_ok |-> TRUE, fallback_ok |-> TRUE,
     result |-> <<>>, endpoint_ok |-> TRUE, endpoint_hits |-> <<>>]

InitHybrid ==
    /\ documents = <<>>
    /\ document_chunks = {}
    /\ blobs = {}
    /\ points = {}
    /\ collections = TRUE
    /\ qdrant_client = ReadyGateway
    /\ req = NewReq("none", 0)
    /\ calls = 0
    /\ workers = NoWorkers
    /\ hs \in {NewHybridSearch(e, q, c, l) :
                   e \in Engines, q \in Queries, c \in RankedLists, l \in Limits}

\* semantic_results = semantic_search_func(query_text, semantic_limit, ...);
\* if not semantic_results: return []
HsFetch ==
    /\ hs.pc = "fetch"
    /\ \E ok \in BOOLEAN :
         LET res == Semantic(hs.collection, semantic_limit(hs.limit), ok)
         IN  hs' = [hs EXCEPT !.semantic_results = res, !.queries = @ + 1,
                              !.fetch_ok = ok,
                              !.pc = IF res = <<>> THEN "returned" ELSE "rerank"]
    /\ UNCHANGED <<documents, document_chunks, blobs, points, collections,
                   qdrant_client, req, calls, workers>>

\* hybrid_results = self.rerank_results(...); return hybrid_results[:limit];
\* ok = FALSE: the scoring of a candidate raises, which needs a query with a
\* word, since rerank_results returns before its loop otherwise
HsRerank ==
    /\ hs.pc = "rerank"
    /\ \E ok \in {TRUE} \cup {Split(Lower(hs.query_text)) = <<>>} :
         hs' = IF ok
               THEN LET hybrid_results == rerank_results(hs.self, hs.query_text,
                                                         hs.semantic_results)
                    IN  [hs EXCEPT !.pc = "returned",
                            !.hybrid_results = hybrid_results,
                            !.result = Truncate(hybrid_results, hs.limit)]
               ELSE [hs EXCEPT !.pc = "fallback", !.rerank_ok = FALSE]
    /\ UNCHANGED <<documents, document_chunks, blobs, points, collections,
                   qdrant_client, req, calls, workers>>

\* variant: the fallback returns the fetched list cut to limit
HsFallback_truncate ==
    /\ hs.pc = "fallback"
    /\ \E ok \in BOOLEAN :
         hs' = [hs EXCEPT !.pc = "returned", !.fallback_ok = ok,
                          !.result = Truncate(hs.semantic_results, hs.limit)]
    /\ UNCHANGED <<documents, document_chunks, blobs, points, collections,
                   qdrant_client, req, calls, workers>>

\* except Exception: return semantic_search_func(query_text, limit, filter_dict)
HsFallback ==
    /\ hs.pc = "fallback"
    /\ \E ok \in BOOLEAN :
         hs' = [hs EXCEPT !.pc = "returned", !.fallback_ok = ok,
                          !.queries = @ + 1,
                          !.result = Semantic(hs.collection, hs.limit, ok)]
    /\ UNCHANGED <<documents, document_chunks, blobs, points, collections,
                   qdrant_client, req, calls, workers>>

\* search_documents for the same query and limit:
\* search_results = qdrant_client.search(query_text = query, limit = limit)
HsEndpoint ==
    /\ hs.pc = "returned"
    /\ \E ok \in BOOLEAN :
         hs' = [hs EXCEPT !.pc = "compared", !.endpoint_ok = ok,
                          !.endpoint_hits = Semantic(hs.collection, hs.limit, ok)]
    /\ UNCHANGED <<documents, document_chunks, blobs, points, collections,
                   qdrant_client, req, calls, workers>>

NextHybrid == HsFetch \/ HsRerank \/ HsFallback \/ HsEndpoint

SpecHybrid == InitHybrid /\ [][NextHybrid]_vars

\* the points a result list names, in its order
Ids(results) == [i \in DOMAIN results |-> results[i].id]

\* C19: for every query and limit the hits of search_documents are the same
\* candidates in the same order as HybridSearchEngine.search returns, when
\* no call of either search failed.
C19_EndpointIsHybrid ==
    (hs.pc = "compared" /\ hs.fetch_ok /\ hs.rerank_ok /\ hs.endpoint_ok)
    => Ids(hs.endpoint_hits) = Ids(hs.result)

----------------------------------------------------------------------------
\* Properties of the re-ranking

QueryWords == Split(Lower(hs.query_text))

\* search has returned the re-ranked candidates
Reranked ==
    /\ hs.pc \in {"returned", "compared"}
    /\ hs.rerank_ok
    /\ hs.semantic_results # <<>>

\* the words of the query found in the text, counted with repetitions
WordsIn(text) ==
    Cardinality({i \in DOMAIN QueryWords : Contains(QueryWords[i], Lower(text))})

\* C21: for a non-empty query the list rerank_results returns is sorted by
\* non-increasing hybrid score, candidates of equal hybrid score keep the
\* order of the semantic input, and search returns the first min(limit, n)
\* elements of that list.
C21_SortedStableTruncated ==
    (Reranked /\ QueryWords # <<>>)
    => /\ \A i \in DOMAIN hs.hybrid_results, j \in DOMAIN hs.hybrid_results :
             i < j => /\ hs.hybrid_results[i].score >= hs.hybrid_results[j].score
                      /\ hs.hybrid_results[i].score = hs.hybrid_results[j].score
                         => hs.hybrid_results[i].id < hs.hybrid_results[j].id
       /\ Len(hs.result) = Min(hs.limit, Len(hs.hybrid_results))
       /\ \A i \in DOMAIN hs.result : hs.result[i] = hs.hybrid_results[i]

C21_Witness ==
    /\ Reranked /\ QueryWords # <<>>
    /\ Len(hs.hybrid_results) = MaxCandidates
    /\ hs.hybrid_results[1].score = hs.hybrid_results[2].score
    /\ Len(hs.result) < Len(hs.hybrid_results)

\* C22: the hybrid score of a candidate is 0.6 semantic + 0.4 keyword exactly
\* when every query word is a substring of its lowercased text, whatever the
\* weights of the engine, and semantic_weight semantic + keyword_weight
\* keyword otherwise.
C22_HybridWeights ==
    (Reranked /\ QueryWords # <<>>)
    => \A i \in DOMAIN hs.hybrid_results :
          LET r == hs.hybrid_results[i]
              n == Len(QueryWords)
              full == \A w \in DOMAIN QueryWords : Contains(QueryWords[w], Lower(r.text))
          IN  r.score = IF full
                        THEN 6 * r.semantic_score * n + 400 * r.keyword_score
                        ELSE hs.self.semantic_weight * r.semantic_score * n
                             + 100 * hs.self.keyword_weight * r.keyword_score

\* semantic 0.5 and keyword 1.0 with full coverage give 0.70 under an engine
\* with other weights
C22_Witness ==
    /\ Reranked /\ hs.self # DefaultEngine /\ Len(QueryWords) = 1
    /\ \E i \in DOMAIN hs.hybrid_results :
          /\ hs.hybrid_results[i].semantic_score = 500
          /\ hs.hybrid_results[i].keyword_score = 10
          /\ hs.hybrid_results[i].score = 7000
    /\ \E i \in DOMAIN hs.hybrid_results : WordsIn(hs.hybrid_results[i].text) = 0

\* what calculate_keyword_score added to the per-word sum, in tenths
Bonus(r) == r.keyword_score - 10 * WordsIn(r.text)

\* C23: the bonus calculate_keyword_score adds to the per-word match sum is
\* one of 0, 0.3 and 0.5; it is 0 for a query of one word, 0.5 when the
\* lowercased query is a substring of the text, and the proximity bonus is
\* never added to the phrase bonus nor added twice.
C23_BonusOnce ==
    (Reranked /\ QueryWords # <<>>)
    => \A i \in DOMAIN hs.hybrid_results :
          LET r == hs.hybrid_results[i] IN
          /\ Bonus(r) \in {0, 3, 5}
          /\ Len(QueryWords) = 1 => Bonus(r) = 0
          /\ Len(QueryWords) > 1 =>
                (Bonus(r) = 5 <=> Contains(Lower(hs.query_text), Lower(r.text)))

C23_Witness ==
    /\ Reranked /\ Len(QueryWords) = 2
    /\ \E i \in DOMAIN hs.hybrid_results : Bonus(hs.hybrid_results[i]) = 5
    /\ \E i \in DOMAIN hs.hybrid_results :
          /\ Bonus(hs.hybrid_results[i]) = 3
          /\ hs.hybrid_results[i].text = <<"b", " ", "a">>

\* C24: for an empty or whitespace-only query calculate_keyword_score is 0
\* for every text, the re-ranking does not raise, and search returns the
\* semantic candidates in their order, cut to limit.
C24_EmptyQueryNoOp ==
    (hs.pc \in {"returned", "compared"} /\ hs.fetch_ok /\ QueryWords = <<>>)
    => /\ hs.rerank_ok
       /\ hs.hybrid_results = hs.semantic_results
       /\ hs.result = Truncate(hs.collection, hs.limit)
       /\ \A t \in Texts : calculate_keyword_score(hs.query_text, t) = 0

C24_Witness ==
    /\ hs.pc = "returned" /\ hs.fetch_ok /\ hs.query_text = <<" ">>
    /\ Len(hs.collection) = MaxCandidates
    /\ Len(hs.result) = 1

\* C26: the 0.3 proximity bonus is in the keyword score only when two
\* different query words both occur in the text, an occurrence of one at
\* most 50 characters from an occurrence of the other.
C26_ProximityNeedsDistinctWords ==
    (Reranked /\ QueryWords # <<>>)
    => \A i \in DOMAIN hs.hybrid_results :
          LET r == hs.hybrid_results[i] IN
          Bonus(r) = 3 =>
             \E v \in DOMAIN QueryWords, w \in DOMAIN QueryWords :
                /\ QueryWords[v] # QueryWords[w]
                /\ \E pos1 \in Occurrences(QueryWords[v], Lower(r.text)),
                      pos2 \in Occurrences(QueryWords[w], Lower(r.text)) :
                      Abs(pos1 - pos2) <= 50

\* C27: for every candidate the matched-word count of rerank_results equals
\* the one calculate_keyword_score accumulates, and the 0.6 / 0.4 weights
\* are used exactly when the latter counted every query word.
C27_MatchCountsAgree ==
    (Reranked /\ QueryWords # <<>>)
    => /\ \A i \in DOMAIN hs.semantic_results :
             MatchedWords(QueryWords, Lower(hs.semantic_results[i].text))
               = CountMatches(QueryWords, Lower(hs.semantic_results[i].text), 1)
       /\ \A i \in DOMAIN hs.hybrid_results :
             LET r == hs.hybrid_results[i]
                 n == Len(QueryWords)
             IN  r.score =
                   IF CountMatches(QueryWords, Lower(r.text), 1) = n
                   THEN Weighted(6, 4, r.semantic_score, r.keyword_score, n)
                   ELSE Weighted(hs.self.semantic_weight, hs.self.keyword_weight,
                                 r.semantic_score, r.keyword_score, n)

C27_Witness ==
    /\ Reranked /\ hs.query_text = <<"a", " ", "a">>
    /\ \E i \in DOMAIN hs.hybrid_results : hs.hybrid_results[i].keyword_score >= 20
    /\ \E i \in DOMAIN hs.hybrid_results : hs.hybrid_results[i].keyword_score = 0

\* C29: for a non-empty query rerank_results returns a permutation of its
\* input: as many results, each with the id, text and metadata of one
\* candidate and that candidate's score as semantic_score; the input list is
\* as it was fetched.
C29_RerankPermutes ==
    (Reranked /\ QueryWords # <<>>)
    => /\ Len(hs.hybrid_results) = Len(hs.semantic_results)
       /\ {hs.hybrid_results[i].id : i \in DOMAIN hs.hybrid_results}
            = {hs.semantic_results[i].id : i \in DOMAIN hs.semantic_results}
       /\ \A i \in DOMAIN hs.hybrid_results :
             \E j \in DOMAIN hs.semantic_results :
                /\ hs.hybrid_results[i].id = hs.semantic_results[j].id
                /\ hs.hybrid_results[i].text = hs.semantic_results[j].text
                /\ hs.hybrid_results[i].metadata = hs.semantic_results[j].metadata
                /\ hs.hybrid_results[i].semantic_score = hs.semantic_results[j].score
                /\ hs.hybrid_results[i].keyword_score
                     = calculate_keyword_score(hs.query_text, hs.semantic_results[j].text)
       /\ hs.semantic_results = Truncate(hs.collection, semantic_limit(hs.limit))

C29_Witness ==
    /\ Reranked /\ QueryWords # <<>>
    /\ Len(hs.hybrid_results) = MaxCandidates
    /\ hs.hybrid_results[1].id = 2
    /\ hs.hybrid_results[1].semantic_score < hs.hybrid_results[2].semantic_score

----------------------------------------------------------------------------
\* More properties of the endpoints

\* C25: when a step of the rollback of upload_pdf fails, the call still ends
\* with HTTP 500 and no document, and the error detail holds the message of
\* the vectorization failure.
C25_CleanupDoesNotMask ==
    (Finished("upload_pdf") /\ req.vec_error # ""
        /\ req.cleanup \in {"remove_failed", "delete_failed"})
    => /\ req.http = 500
       /\ req.response = NoDocument
       /\ \E i \in DOMAIN req.detail : req.detail[i] = req.vec_error
       /\ \E i \in DOMAIN req.detail : req.detail[i] = "PDF processing failed"

C25_Witness ==
    /\ Finished("upload_pdf") /\ req.vec_error = InsertFailed
    /\ req.cleanup = "delete_failed"
    /\ Persisted(req.db_document.id)

\* C28: once client, collection_name and embedding_model are all set they
\* stay set, whatever a later initialisation does.
C28_ReadyStays ==
    [][Ready(qdrant_client) => Ready(qdrant_client')]_vars

C28_Witness ==
    /\ req.init_called /\ Ready(req.q_before) /\ ~req.init_ok
    /\ Ready(qdrant_client)

====
